---- MODULE Spec2Model ----
(***************************************************************************)
(* ForwardRenderPath.render of packages/core (components/renderpath/       *)
(* Forward.ts): one synchronous pass over the scene store that clears the  *)
(* engine, resolves each scene's camera, filters each mesh-list entry by   *)
(* visibility and readiness, pushes uniforms through the material system   *)
(* and records the bind and draw commands.                                 *)
(*                                                                         *)
(* Component stores are functions from entity ids to component records; an *)
(* entity outside a store's DOMAIN has no such component                   *)
(* (getComponentByEntity returns undefined).  An optional field is a       *)
(* sequence of length 0 (unset) or 1 (set).  Matrices are 2x2 integer      *)
(* matrices <<a, b, c, d>> (row major), so that products keep their order. *)
(***************************************************************************)
EXTENDS Integers, Sequences, FiniteSets, TLC

VARIABLES
    scene,      \* scene store, in iteration order: Seq of [camera, meshes]
    camera,     \* camera store: entity -> [view, perspective, frustum]
    mesh,       \* mesh store: entity -> [material, geometry]
    material,   \* material store: entity -> [dirty, uniforms, uniformBindGroup, ...]
    geometry,   \* geometry store: entity -> [dirty, attributes, indices, ...]
    cullable,   \* cullable store: entity -> [visible]
    transform,  \* transform store: entity -> [worldTransform]
    calls,      \* calls made by the last render, in order (engine and material system)
    outcome,    \* "idle" before the first render, then "returned" or "threw"
    visited,    \* the mesh-list entries <<scene, position>> the last render reached
    prev        \* the last render's start: the calls and outcome of the render
                \* before it, and the material store it started from

vars == <<scene, camera, mesh, material, geometry, cullable, transform,
          calls, outcome, visited, prev>>

(***************************************************************************)
(* Bounds of the model.                                                    *)
(***************************************************************************)
MaxScenes == 2      \* scenes in the scene store
MaxEntries == 2     \* mesh-list entries of a frame, over all its scenes
MaxIndices == 2     \* length of a geometry's index list
MaxInstanced == 2   \* a geometry's maxInstancedCount
MaxAttributes == 2  \* vertex attributes of a geometry

(***************************************************************************)
(* Values.                                                                 *)
(***************************************************************************)
None == <<>>
Some(v) == <<v>>
IsSet(o) == Len(o) > 0
Get(o) == o[1]

\* mat4.multiply(out, a, b) of gl-matrix: out = a * b
Multiply(a, b) ==
    << a[1] * b[1] + a[2] * b[3], a[1] * b[2] + a[2] * b[4],
       a[3] * b[1] + a[4] * b[3], a[3] * b[2] + a[4] * b[4] >>

\* ComponentManager.getComponentByEntity: the component, or undefined
HasComponent(store, entity) == entity \in DOMAIN store

(***************************************************************************)
(* Component values the stores are populated with.  Entities are numbers:  *)
(* cameras 1 and 2, materials 11..13, geometries 21..23, mesh entities     *)
(* 31..43.  The refs 9, 19 and 29 resolve to no component.                 *)
(***************************************************************************)
\* Frustum.extractFromVPMatrix: the planes are sums and differences of the
\* rows of the view-projection matrix
ExtractFromVPMatrix(vp) ==
    << <<vp[3] + vp[1], vp[4] + vp[2]>>, <<vp[3] - vp[1], vp[4] - vp[2]>> >>

CameraComponent(view, perspective) ==
    [view |-> view, perspective |-> perspective,
     frustum |-> << <<0, 0>>, <<0, 0>> >>]

Uniform(name, dirty, data) == [name |-> name, dirty |-> dirty, data |-> data]

MaterialComponent(dirty, uniforms, tag) ==
    [dirty |-> dirty, uniforms |-> uniforms,
     uniformBindGroup |-> <<"bindGroup", tag>>,
     pipelineLayout |-> <<"layout", tag>>,
     stageDescriptor |-> <<"stages", tag>>,
     primitiveTopology |-> "triangle-list"]

Attribute(buffer, arrayStride) ==
    [buffer |-> buffer, arrayStride |-> arrayStride, stepMode |-> "vertex",
     attributes |-> <<"float3">>]

GeometryComponent(dirty, attributes, indices, indicesBuffer, maxInstancedCount) ==
    [dirty |-> dirty, attributes |-> attributes, indices |-> indices,
     indicesBuffer |-> indicesBuffer, maxInstancedCount |-> maxInstancedCount]

Cameras ==
    (1 :> CameraComponent(<<1, 1, 0, 1>>, <<2, 0, 0, 1>>)) @@
    (2 :> CameraComponent(<<1, 0, 1, 1>>, <<1, 0, 0, 3>>))

\* uniform names are unique within a material; material 12 declares the
\* camera uniform projectionMatrix among its bindings
Materials ==
    (11 :> MaterialComponent(FALSE,
              << [uniforms |-> << Uniform("color", TRUE, 5), Uniform("opacity", FALSE, 6) >>],
                 [uniforms |-> << Uniform("time", TRUE, 7) >>] >>, "A")) @@
    (12 :> MaterialComponent(FALSE,
              << [uniforms |-> << Uniform("projectionMatrix", TRUE, <<1, 0, 0, 1>>),
                                  Uniform("tint", TRUE, 9) >>] >>, "B")) @@
    (13 :> MaterialComponent(TRUE,
              << [uniforms |-> << Uniform("color", TRUE, 5) >>] >>, "D"))

IndexedGeometry ==
    GeometryComponent(FALSE, << Attribute(Some("vb1"), 12) >>,
                      Some(<<0, 1, 2>>), Some("ib1"), Some(2))

Geometries(shape) ==
    (21 :> shape) @@
    (22 :> GeometryComponent(FALSE, <<>>, None, None, None)) @@
    (23 :> GeometryComponent(TRUE, << Attribute(Some("vb3"), 12) >>,
                             Some(<<0, 1, 2>>), Some("ib3"), None))

MeshComponent(m, g) == [material |-> m, geometry |-> g]

Meshes ==
    (31 :> MeshComponent(11, 21)) @@ (32 :> MeshComponent(11, 22)) @@
    (33 :> MeshComponent(11, 21)) @@ (34 :> MeshComponent(11, 21)) @@
    (35 :> MeshComponent(13, 21)) @@ (36 :> MeshComponent(11, 23)) @@
    (38 :> MeshComponent(19, 21)) @@ (39 :> MeshComponent(11, 29)) @@
    (41 :> MeshComponent(12, 22)) @@ (42 :> MeshComponent(12, 22)) @@
    (43 :> MeshComponent(11, 22))

Cullables ==
    [e \in {31, 32, 35, 36, 37, 38, 39, 41, 42, 43} |-> [visible |-> TRUE]] @@
    (34 :> [visible |-> FALSE])

Transforms ==
    (31 :> [worldTransform |-> <<2, 0, 0, 1>>]) @@
    (33 :> [worldTransform |-> <<1, 0, 0, 1>>]) @@
    (35 :> [worldTransform |-> <<1, 0, 0, 1>>]) @@
    (41 :> [worldTransform |-> <<1, 1, 1, 2>>]) @@
    (43 :> [worldTransform |-> <<1, 2, 0, 1>>])

\* the shapes a geometry can have: index list absent or of length 0..MaxIndices,
\* maxInstancedCount unset or 0..MaxInstanced, up to MaxAttributes vertex
\* attributes each with its buffer set or unset
AttributeLists ==
    UNION { { [i \in 1..n |-> IF populated[i] THEN Attribute(Some(<<"vb", i>>), 12)
                                              ELSE Attribute(None, 8)] :
              populated \in [1..n -> BOOLEAN] } :
            n \in 0..MaxAttributes }

IndexLists == {None} \cup {Some([i \in 1..n |-> 0]) : n \in 0..MaxIndices}

GeometryShapes ==
    { GeometryComponent(FALSE, a, i,
                        IF IsSet(i) /\ Len(Get(i)) > 0 THEN Some("ib") ELSE None, k) :
        a \in AttributeLists, i \in IndexLists,
        k \in {None} \cup {Some(n) : n \in 0..MaxInstanced} }

\* the families of frames the model starts from: the mesh entities a scene
\* may list, the camera refs a scene may hold, the shapes of geometry 21 and
\* the numbers of scenes
Families ==
    { [pool |-> {31, 33, 34, 35, 36}, cams |-> {1, 9}, shapes |-> {IndexedGeometry},
       scenes |-> 0..MaxScenes],
      [pool |-> {31, 32, 37, 38, 39}, cams |-> {1}, shapes |-> {IndexedGeometry},
       scenes |-> 0..MaxScenes],
      [pool |-> {31, 41, 42, 43}, cams |-> {1, 2}, shapes |-> {IndexedGeometry},
       scenes |-> 0..MaxScenes],
      [pool |-> {31}, cams |-> {1}, shapes |-> GeometryShapes, scenes |-> {1}] }

RECURSIVE Sum(_)
Sum(s) == IF s = <<>> THEN 0 ELSE s[1] + Sum(Tail(s))

\* the scene store built from per-scene cameras, per-scene list lengths and
\* the entries of all lists in one sequence
SceneStore(cams, lens, flat) ==
    [i \in 1..Len(lens) |->
        [camera |-> cams[i],
         meshes |-> SubSeq(flat, Sum(SubSeq(lens, 1, i - 1)) + 1,
                                 Sum(SubSeq(lens, 1, i)))]]

Init ==
    /\ \E fam \in Families :
         /\ \E n \in fam.scenes :
              \E lens \in {l \in [1..n -> 0..MaxEntries] : Sum(l) <= MaxEntries} :
                \E cams \in [1..n -> fam.cams] :
                  \E flat \in [1..Sum(lens) -> fam.pool] :
                    scene = SceneStore(cams, lens, flat)
         /\ \E shape \in fam.shapes : geometry = Geometries(shape)
    /\ camera = Cameras
    /\ mesh = Meshes
    /\ material = Materials
    /\ cullable = Cullables
    /\ transform = Transforms
    /\ calls = <<>>
    /\ outcome = "idle"
    /\ visited = <<>>
    /\ prev = [calls |-> <<>>, outcome |-> "idle", material |-> Materials]

(***************************************************************************)
(* The calls of a render.  Each call is recorded with the position of the  *)
(* mesh-list entry being processed (scene index, index in the mesh list,   *)
(* mesh entity; 0 for the clear) next to its arguments.  ctx is the state  *)
(* a render threads through its loops: the calls so far, the material and  *)
(* camera stores as mutated so far, the entries reached so far and whether *)
(* an exception was thrown.                                                *)
(***************************************************************************)
Call(op, si, mi, entity, args) ==
    [op |-> op, scene |-> si, pos |-> mi, entity |-> entity, args |-> args]

Emit(ctx, call) == [ctx EXCEPT !.calls = Append(@, call)]

Throw(ctx) == [ctx EXCEPT !.threw = TRUE]

\* a clear that leaves the stencil buffer alone
ClearCall_NoStencil ==
    Call("clear", 0, 0, 0,
         [color |-> <<0, 0, 0, 1>>, clearColor |-> TRUE, clearDepth |-> TRUE,
          clearStencil |-> FALSE])

\* engine.clear({ r: 0, g: 0, b: 0, a: 1 }, true, true, true)
ClearCall ==
    Call("clear", 0, 0, 0,
         [color |-> <<0, 0, 0, 1>>, clearColor |-> TRUE, clearDepth |-> TRUE,
          clearStencil |-> TRUE])

\* MaterialSystem: the material with the dirty flag of its uniform `name` cleared
ClearUniformDirty(mat, name) ==
    [mat EXCEPT !.uniforms =
        [b \in DOMAIN mat.uniforms |->
            [uniforms |->
                [u \in DOMAIN mat.uniforms[b].uniforms |->
                    IF mat.uniforms[b].uniforms[u].name = name
                    THEN [mat.uniforms[b].uniforms[u] EXCEPT !.dirty = FALSE]
                    ELSE mat.uniforms[b].uniforms[u]]]]]

\* MaterialSystem.setUniform(engine, entity, name, data, isCustomValue)
SetUniform(ctx, si, mi, entity, m, name, data, isCustomValue) ==
    LET pushed == Emit(ctx, Call("setUniform", si, mi, entity,
                                 [material |-> m, name |-> name, data |-> data,
                                  isCustomValue |-> isCustomValue]))
    IN  IF isCustomValue /\ HasComponent(pushed.material, m)
        THEN [pushed EXCEPT !.material[m] = ClearUniformDirty(@, name)]
        ELSE pushed

\* a visibility check that only rejects a Cullable with visible == false
IsVisible_AbsentIsVisible(entity) ==
    ~HasComponent(cullable, entity) \/ cullable[entity].visible

\* if (!this.cullable.getComponentByEntity(meshEntity)?.visible) return;
IsVisible(entity) ==
    HasComponent(cullable, entity) /\ cullable[entity].visible

\* a camera push that pushes the projectionMatrix without looking for a Transform
PushCameraUniforms_ProjectionAlways(ctx, si, mi, entity, m, cam) ==
    LET first == SetUniform(ctx, si, mi, entity, m, "projectionMatrix",
                            cam.perspective, FALSE)
    IN  IF HasComponent(transform, entity)
        THEN SetUniform(first, si, mi, entity, m, "modelViewMatrix",
                        Multiply(cam.view, transform[entity].worldTransform), FALSE)
        ELSE first

\* a camera push that leaves out the modelViewMatrix
PushCameraUniforms_ProjectionOnly(ctx, si, mi, entity, m, cam) ==
    IF HasComponent(transform, entity)
    THEN SetUniform(ctx, si, mi, entity, m, "projectionMatrix", cam.perspective, FALSE)
    ELSE ctx

\* the camera uniforms of a mesh that has a Transform component
PushCameraUniforms(ctx, si, mi, entity, m, cam) ==
    IF HasComponent(transform, entity)
    THEN LET modelViewMatrix ==
                 Multiply(cam.view, transform[entity].worldTransform)
             first == SetUniform(ctx, si, mi, entity, m, "projectionMatrix",
                                 cam.perspective, FALSE)
         IN  SetUniform(first, si, mi, entity, m, "modelViewMatrix",
                        modelViewMatrix, FALSE)
    ELSE ctx

\* a push with the dirty test inverted
PushUniformIfDirty_IfClean(ctx, si, mi, entity, m, uniform) ==
    IF ~uniform.dirty
    THEN SetUniform(ctx, si, mi, entity, m, uniform.name, uniform.data, TRUE)
    ELSE ctx

\* a push of every uniform, dirty or not
PushUniformIfDirty_Always(ctx, si, mi, entity, m, uniform) ==
    SetUniform(ctx, si, mi, entity, m, uniform.name, uniform.data, TRUE)

\* a push of a dirty uniform that leaves out the isCustomValue argument
PushUniformIfDirty_NotCustom(ctx, si, mi, entity, m, uniform) ==
    IF uniform.dirty
    THEN SetUniform(ctx, si, mi, entity, m, uniform.name, uniform.data, FALSE)
    ELSE ctx

\* if (uniform.dirty) materialSystem.setUniform(..., uniform.name, uniform.data, true)
PushUniformIfDirty(ctx, si, mi, entity, m, uniform) ==
    IF uniform.dirty
    THEN SetUniform(ctx, si, mi, entity, m, uniform.name, uniform.data, TRUE)
    ELSE ctx

\* material.uniforms.forEach(binding => binding.uniforms.forEach(uniform => ...)),
\* from uniform u of binding b on; each flag is read when its uniform is reached
RECURSIVE PushDirtyUniforms(_, _, _, _, _, _, _)
PushDirtyUniforms(ctx, si, mi, entity, m, b, u) ==
    LET bindings == ctx.material[m].uniforms
    IN  IF b > Len(bindings) THEN ctx
        ELSE IF u > Len(bindings[b].uniforms)
             THEN PushDirtyUniforms(ctx, si, mi, entity, m, b + 1, 1)
             ELSE PushDirtyUniforms(
                      PushUniformIfDirty(ctx, si, mi, entity, m,
                                         bindings[b].uniforms[u]),
                      si, mi, entity, m, b, u + 1)

\* geometry.attributes.map((attribute) => attribute.buffer!).filter((a) => a)
RECURSIVE SetBuffers(_)
SetBuffers(attributes) ==
    IF attributes = <<>> THEN <<>>
    ELSE (IF IsSet(attributes[1].buffer) THEN <<Get(attributes[1].buffer)>> ELSE <<>>)
         \o SetBuffers(Tail(attributes))

\* if (geometry.attributes.length) engine.bindVertexInputs({...})
BindVertexInputs(ctx, si, mi, entity, geo) ==
    IF Len(geo.attributes) > 0
    THEN Emit(ctx, Call("bindVertexInputs", si, mi, entity,
                        [indexBuffer |-> geo.indicesBuffer, indexOffset |-> 0,
                         vertexStartSlot |-> 0,
                         vertexBuffers |-> SetBuffers(geo.attributes),
                         vertexOffsets |->
                             [i \in 1..Len(SetBuffers(geo.attributes)) |-> 0]]))
    ELSE ctx

\* an index test that takes an empty index list for indices
HasIndices_EmptyCounts(geo) == IsSet(geo.indices)

\* geometry.indices && geometry.indices.length
HasIndices(geo) == IsSet(geo.indices) /\ Len(Get(geo.indices)) > 0

\* an instance count that defaults only when maxInstancedCount is unset
InstanceCount_ZeroKept(geo) ==
    IF IsSet(geo.maxInstancedCount) THEN Get(geo.maxInstancedCount) ELSE 1

\* geometry.maxInstancedCount || 1
InstanceCount(geo) ==
    IF IsSet(geo.maxInstancedCount) /\ Get(geo.maxInstancedCount) # 0
    THEN Get(geo.maxInstancedCount)
    ELSE 1

\* the pipeline descriptor of a draw call
PipelineDescriptor(mat, geo) ==
    [layout |-> mat.pipelineLayout,
     stageDescriptor |-> mat.stageDescriptor,
     primitiveTopology |-> mat.primitiveTopology,
     vertexBuffers |->
         [i \in 1..Len(geo.attributes) |->
             [arrayStride |-> geo.attributes[i].arrayStride,
              stepMode |-> geo.attributes[i].stepMode,
              attributes |-> geo.attributes[i].attributes]],
     cullMode |-> "back",
     depthWriteEnabled |-> TRUE, depthCompare |-> "less",
     format |-> "depth24plus-stencil8"]

\* engine.drawElementsType(`render-${meshEntity}-elements`, ..., 0, indices.length, n)
\* or engine.drawArraysType(`render-${meshEntity}-arrays`, ..., 0, 3, n)
Draw(ctx, si, mi, entity, mat, geo) ==
    IF HasIndices(geo)
    THEN Emit(ctx, Call("drawElementsType", si, mi, entity,
                        [label |-> <<"render", entity, "elements">>,
                         indexFormat |-> <<"uint32">>,
                         pipeline |-> PipelineDescriptor(mat, geo),
                         first |-> 0, count |-> Len(Get(geo.indices)),
                         instanceCount |-> InstanceCount(geo)]))
    ELSE Emit(ctx, Call("drawArraysType", si, mi, entity,
                        [label |-> <<"render", entity, "arrays">>,
                         indexFormat |-> <<>>,
                         pipeline |-> PipelineDescriptor(mat, geo),
                         first |-> 0, count |-> 3,
                         instanceCount |-> InstanceCount(geo)]))

\* a mesh step that binds the material's bind group before the uniform pushes
DrawMesh_BindGroupFirst(ctx, si, mi, entity, cam) ==
    LET m == mesh[entity].material
        geo == geometry[mesh[entity].geometry]
        c1 == Emit(ctx, Call("setRenderBindGroups", si, mi, entity,
                             [groups |-> <<ctx.material[m].uniformBindGroup>>]))
        c2 == PushCameraUniforms(c1, si, mi, entity, m, cam)
        c3 == PushDirtyUniforms(c2, si, mi, entity, m, 1, 1)
        c4 == BindVertexInputs(c3, si, mi, entity, geo)
    IN  Draw(c4, si, mi, entity, c4.material[m], geo)

\* lines 77..201: what render does for a mesh that passed both checks
DrawMesh(ctx, si, mi, entity, cam) ==
    LET m == mesh[entity].material
        geo == geometry[mesh[entity].geometry]
        c1 == PushCameraUniforms(ctx, si, mi, entity, m, cam)
        c2 == PushDirtyUniforms(c1, si, mi, entity, m, 1, 1)
        c3 == Emit(c2, Call("setRenderBindGroups", si, mi, entity,
                            [groups |-> <<c2.material[m].uniformBindGroup>>]))
        c4 == BindVertexInputs(c3, si, mi, entity, geo)
    IN  Draw(c4, si, mi, entity, c4.material[m], geo)

\* a readiness check that looks at material.dirty only
ReadinessCheck_MaterialOnly(ctx, entity) ==
    IF ~HasComponent(mesh, entity) THEN "throw"
    ELSE IF ~HasComponent(ctx.material, mesh[entity].material) THEN "throw"
    ELSE IF ctx.material[mesh[entity].material].dirty THEN "skip"
    ELSE IF ~HasComponent(geometry, mesh[entity].geometry) THEN "throw"
    ELSE "draw"

\* if (material.dirty || geometry.dirty) return;  Reading .dirty of an
\* undefined component throws a TypeError; geometry.dirty is read only when
\* material.dirty is false.
ReadinessCheck(ctx, entity) ==
    IF ~HasComponent(mesh, entity) THEN "throw"
    ELSE IF ~HasComponent(ctx.material, mesh[entity].material) THEN "throw"
    ELSE IF ctx.material[mesh[entity].material].dirty THEN "skip"
    ELSE IF ~HasComponent(geometry, mesh[entity].geometry) THEN "throw"
    ELSE IF geometry[mesh[entity].geometry].dirty THEN "skip"
    ELSE "draw"

\* the callback of scene.meshes.forEach for the entry at position mi of scene si
RenderMesh(ctx, si, mi, cam) ==
    LET entity == scene[si].meshes[mi]
    IN  IF ~IsVisible(entity) THEN ctx
        ELSE CASE ReadinessCheck(ctx, entity) = "throw" -> Throw(ctx)
               [] ReadinessCheck(ctx, entity) = "skip" -> ctx
               [] OTHER -> DrawMesh(ctx, si, mi, entity, cam)

\* a mesh loop that walks the list from its end
RECURSIVE RenderMeshes_Reverse(_, _, _, _)
RenderMeshes_Reverse(ctx, si, mi, cam) ==
    IF ctx.threw \/ mi > Len(scene[si].meshes) THEN ctx
    ELSE LET at == Len(scene[si].meshes) - mi + 1
         IN  RenderMeshes_Reverse(
                 RenderMesh([ctx EXCEPT !.visited = Append(@, <<si, at>>)], si, at, cam),
                 si, mi + 1, cam)

\* scene.meshes.forEach from position mi on; an exception ends the loop
RECURSIVE RenderMeshes(_, _, _, _)
RenderMeshes(ctx, si, mi, cam) ==
    IF ctx.threw \/ mi > Len(scene[si].meshes) THEN ctx
    ELSE RenderMeshes(
             RenderMesh([ctx EXCEPT !.visited = Append(@, <<si, mi>>)], si, mi, cam),
             si, mi + 1, cam)

\* a scene callback that returns when the scene's camera does not resolve
RenderScene_SkipMissingCamera(ctx, si) ==
    LET ref == scene[si].camera
    IN  IF ~HasComponent(ctx.camera, ref) THEN ctx
        ELSE LET cam == ctx.camera[ref]
                 viewProjectionMatrix == Multiply(cam.perspective, cam.view)
                 extracted ==
                     [ctx EXCEPT !.camera[ref].frustum =
                                     ExtractFromVPMatrix(viewProjectionMatrix)]
             IN  RenderMeshes(extracted, si, 1, cam)

\* the callback of this.scene.forEach: the camera is resolved (calling a
\* method of an undefined camera throws), its frustum is re-extracted, then
\* the meshes are rendered with the view and perspective read from it
\* a scene step that also stores the view-projection matrix as the camera's view
RenderScene_StoresViewProjection(ctx, si) ==
    LET ref == scene[si].camera
    IN  IF ~HasComponent(ctx.camera, ref) THEN Throw(ctx)
        ELSE LET cam == ctx.camera[ref]
                 viewProjectionMatrix == Multiply(cam.perspective, cam.view)
                 extracted ==
                     [ctx EXCEPT !.camera[ref].frustum =
                                     ExtractFromVPMatrix(viewProjectionMatrix),
                                 !.camera[ref].view = viewProjectionMatrix]
             IN  RenderMeshes(extracted, si, 1, cam)

RenderScene(ctx, si) ==
    LET ref == scene[si].camera
    IN  IF ~HasComponent(ctx.camera, ref) THEN Throw(ctx)
        ELSE LET cam == ctx.camera[ref]
                 viewProjectionMatrix == Multiply(cam.perspective, cam.view)
                 extracted ==
                     [ctx EXCEPT !.camera[ref].frustum =
                                     ExtractFromVPMatrix(viewProjectionMatrix)]
             IN  RenderMeshes(extracted, si, 1, cam)

\* this.scene.forEach from scene si on; an exception ends the loop
RECURSIVE RenderScenes(_, _)
RenderScenes(ctx, si) ==
    IF ctx.threw \/ si > Len(scene) THEN ctx
    ELSE RenderScenes(RenderScene(ctx, si), si + 1)

\* render(engine, systems): the clear, then the scenes
RenderFrame ==
    RenderScenes([calls |-> <<ClearCall>>, material |-> material,
                  camera |-> camera, visited |-> <<>>, threw |-> FALSE], 1)

Render ==
    LET frame == RenderFrame
    IN  /\ calls' = frame.calls
        /\ material' = frame.material
        /\ camera' = frame.camera
        /\ outcome' = IF frame.threw THEN "threw" ELSE "returned"
        /\ visited' = frame.visited
        /\ prev' = [calls |-> calls, outcome |-> outcome, material |-> material]
        /\ UNCHANGED <<scene, mesh, geometry, cullable, transform>>

Next == Render

Spec == Init /\ [][Next]_vars

(***************************************************************************)
(* Vocabulary of the properties, stated on the stores and on the recorded  *)
(* calls.                                                                  *)
(***************************************************************************)
Rendered == outcome # "idle"

\* the mesh-list entries of the frame: <<scene index, position in its list>>
Entries ==
    UNION { {<<si, mi>> : mi \in 1..Len(scene[si].meshes)} : si \in 1..Len(scene) }

EntityAt(entry) == scene[entry[1]].meshes[entry[2]]

Reached(entry) == \E i \in 1..Len(visited) : visited[i] = entry

IsDraw(call) == call.op \in {"drawElementsType", "drawArraysType"}

\* the positions in a call sequence of the calls made for a mesh-list entry
CallsAt(cs, entry) ==
    {i \in 1..Len(cs) : cs[i].scene = entry[1] /\ cs[i].pos = entry[2]}

DrawsAt(cs, entry) == {i \in CallsAt(cs, entry) : IsDraw(cs[i])}

DrawsOf(cs, entity) == {i \in 1..Len(cs) : IsDraw(cs[i]) /\ cs[i].entity = entity}

\* the Mesh component of the entity and the Material and Geometry it names exist
Resolves(entity) ==
    /\ entity \in DOMAIN mesh
    /\ mesh[entity].material \in DOMAIN material
    /\ mesh[entity].geometry \in DOMAIN geometry

MaterialOf(entity) == material[mesh[entity].material]
GeometryOf(entity) == geometry[mesh[entity].geometry]

CullableVisible(entity) == entity \in DOMAIN cullable /\ cullable[entity].visible

NotDirty(entity) == ~MaterialOf(entity).dirty /\ ~GeometryOf(entity).dirty

\* the entry went through the visibility and the readiness check and passed both
Passed(entry) ==
    /\ Reached(entry)
    /\ CullableVisible(EntityAt(entry))
    /\ Resolves(EntityAt(entry))
    /\ NotDirty(EntityAt(entry))

\* C1: after a render, no draw call (drawElementsType or drawArraysType) has
\* been issued for a mesh-list entry whose resolved Material or resolved
\* Geometry is dirty, whatever its Cullable, Transform and uniforms.
C1_NoDrawWhenDirty ==
    \A entry \in Entries :
        (Resolves(EntityAt(entry)) /\ ~NotDirty(EntityAt(entry)))
            => (DrawsAt(calls, entry) = {} /\ DrawsOf(calls, EntityAt(entry)) = {})

\* a render returned that reached a visible entry with a dirty Geometry and
\* drew another entry
C1_Witness ==
    /\ outcome = "returned"
    /\ \E entry \in Entries :
          /\ Reached(entry) /\ CullableVisible(EntityAt(entry))
          /\ Resolves(EntityAt(entry))
          /\ GeometryOf(EntityAt(entry)).dirty
    /\ \E i \in 1..Len(calls) : IsDraw(calls[i])

\* C2: after a render, no draw call has been issued for a mesh-list entry
\* that has no Cullable component or whose Cullable is not visible.
C2_NoDrawWhenNotVisible ==
    \A entry \in Entries :
        ~CullableVisible(EntityAt(entry))
            => (DrawsAt(calls, entry) = {} /\ DrawsOf(calls, EntityAt(entry)) = {})

\* a render returned that reached an entry without Cullable whose Material
\* and Geometry are ready, and drew another entry
C2_Witness ==
    /\ outcome = "returned"
    /\ \E entry \in Entries :
          /\ Reached(entry) /\ EntityAt(entry) \notin DOMAIN cullable
          /\ Resolves(EntityAt(entry)) /\ NotDirty(EntityAt(entry))
    /\ \E i \in 1..Len(calls) : IsDraw(calls[i])

CameraUniformNames == {"projectionMatrix", "modelViewMatrix"}

\* the positions of the setUniform calls made for an entry under a name
PushesAt(entry, name) ==
    {i \in CallsAt(calls, entry) :
        calls[i].op = "setUniform" /\ calls[i].args.name = name}

\* those among them that render makes itself for the camera matrices
CameraPushesAt(entry, name) ==
    {i \in PushesAt(entry, name) : ~calls[i].args.isCustomValue}

\* the positions of the setUniform calls for a uniform of a material
PushesOf(m, name) ==
    {i \in 1..Len(calls) :
        /\ calls[i].op = "setUniform"
        /\ calls[i].args.material = m /\ calls[i].args.name = name}

\* the uniforms of a material: <<binding index, index in the binding>>
UniformsOf(m) ==
    UNION { {<<b, u>> : u \in 1..Len(material[m].uniforms[b].uniforms)} :
            b \in 1..Len(material[m].uniforms) }

UniformAt(store, m, bu) == store[m].uniforms[bu[1]].uniforms[bu[2]]

\* the materials of the entries that passed both checks
DrawnMaterials == {mesh[EntityAt(entry)].material : entry \in {e \in Entries : Passed(e)}}

\* C3 as stated: every entry that passes both checks has exactly one setUniform
\* named projectionMatrix and exactly one named modelViewMatrix.
C3_Original ==
    \A entry \in Entries :
        Passed(entry) =>
            /\ Cardinality(PushesAt(entry, "projectionMatrix")) = 1
            /\ Cardinality(PushesAt(entry, "modelViewMatrix")) = 1

\* C3 (amended): for every entry that passes both checks, render pushes the
\* camera uniforms projectionMatrix and modelViewMatrix (setUniform without
\* isCustomValue, to the entry's material) exactly once each when the mesh has
\* a Transform component, whatever the dirty flags, and not at all when it has
\* none.
C3_CameraUniformsOncePerTransformedMesh ==
    \A entry \in Entries :
        Passed(entry) =>
            \A name \in CameraUniformNames :
                IF EntityAt(entry) \in DOMAIN transform
                THEN /\ Cardinality(CameraPushesAt(entry, name)) = 1
                     /\ \A i \in CameraPushesAt(entry, name) :
                            calls[i].args.material = mesh[EntityAt(entry)].material
                ELSE CameraPushesAt(entry, name) = {}

\* a second render in a row returned that drew a mesh with a Transform and a
\* mesh without one
C3_Witness ==
    /\ outcome = "returned" /\ prev.outcome = "returned"
    /\ \E e1, e2 \in Entries :
          /\ Passed(e1) /\ EntityAt(e1) \in DOMAIN transform
          /\ Passed(e2) /\ EntityAt(e2) \notin DOMAIN transform

\* C4 as stated: when render returns, every non-camera uniform of every
\* Material that was dirty at the start has been pushed exactly once and is
\* clean.
C4_Original ==
    outcome = "returned" =>
        \A m \in DOMAIN material : \A bu \in UniformsOf(m) :
            (UniformAt(prev.material, m, bu).dirty
             /\ UniformAt(material, m, bu).name \notin CameraUniformNames)
                => /\ Cardinality(PushesOf(m, UniformAt(material, m, bu).name)) = 1
                   /\ ~UniformAt(material, m, bu).dirty

\* C4 (amended): with a setUniform that clears the flag when isCustomValue is
\* true, every non-camera uniform that was dirty at the start of a render and
\* belongs to the Material of at least one entry that passed both checks has
\* been pushed exactly once, with isCustomValue = true, and is clean; the
\* uniforms of every other Material are not pushed and keep their flags.
C4_DirtyUniformsOfDrawnMaterials ==
    Rendered =>
        \A m \in DOMAIN material : \A bu \in UniformsOf(m) :
            LET name == UniformAt(material, m, bu).name
            IN  /\ (m \in DrawnMaterials /\ name \notin CameraUniformNames
                    /\ UniformAt(prev.material, m, bu).dirty)
                       => /\ Cardinality(PushesOf(m, name)) = 1
                          /\ \A i \in PushesOf(m, name) : calls[i].args.isCustomValue
                          /\ ~UniformAt(material, m, bu).dirty
                /\ m \notin DrawnMaterials
                       => /\ PushesOf(m, name) = {}
                          /\ UniformAt(material, m, bu) = UniformAt(prev.material, m, bu)

\* a render returned that drew two entries sharing a Material with a uniform
\* dirty at the start
C4_Witness ==
    /\ outcome = "returned"
    /\ \E e1, e2 \in Entries :
          /\ e1 # e2 /\ Passed(e1) /\ Passed(e2)
          /\ mesh[EntityAt(e1)].material = mesh[EntityAt(e2)].material
          /\ \E bu \in UniformsOf(mesh[EntityAt(e1)].material) :
                UniformAt(prev.material, mesh[EntityAt(e1)].material, bu).dirty

AllCamerasResolve == \A si \in 1..Len(scene) : scene[si].camera \in DOMAIN camera

\* C5 as stated: a mesh-list entry with a dangling reference is skipped
\* silently; render raises no error, draws nothing for that entry and goes on
\* with the remaining meshes and scenes.  So in a frame whose scenes all have
\* a camera, render returns and has gone through every entry.
C5_DanglingSkippedSilently ==
    (Rendered /\ AllCamerasResolve) =>
        /\ outcome = "returned"
        /\ \A entry \in Entries :
              /\ Reached(entry)
              /\ ~Resolves(EntityAt(entry)) => DrawsAt(calls, entry) = {}

\* C6: every entry that passes both checks has exactly one draw call: a
\* drawElementsType with firstIndex 0 and index count N when its Geometry has
\* a non-empty index list of length N, a drawArraysType with firstVertex 0 and
\* vertex count 3 when the index list is absent or empty.
C6_ExactlyOneDrawOfTheRightKind ==
    \A entry \in Entries :
        Passed(entry) =>
            LET indices == GeometryOf(EntityAt(entry)).indices
                n == IF indices = <<>> THEN 0 ELSE Len(indices[1])
            IN  /\ Cardinality(DrawsAt(calls, entry)) = 1
                /\ \A i \in DrawsAt(calls, entry) :
                      /\ calls[i].entity = EntityAt(entry)
                      /\ calls[i].args.first = 0
                      /\ n > 0 => /\ calls[i].op = "drawElementsType"
                                  /\ calls[i].args.count = n
                      /\ n = 0 => /\ calls[i].op = "drawArraysType"
                                  /\ calls[i].args.count = 3

\* a render returned that drew a mesh whose Geometry has an empty index list
C6_Witness ==
    /\ outcome = "returned"
    /\ \E entry \in Entries :
          /\ Passed(entry)
          /\ GeometryOf(EntityAt(entry)).indices = <<<<>>>>
          /\ DrawsAt(calls, entry) # {}

\* C7: every draw call has instance count 1 when its Geometry's
\* maxInstancedCount is unset or zero and k when it is set to k > 0, hence
\* never less than 1.
C7_InstanceCount ==
    \A i \in 1..Len(calls) :
        IsDraw(calls[i]) =>
            LET k == GeometryOf(calls[i].entity).maxInstancedCount
            IN  /\ (k = <<>> \/ k = <<0>>) => calls[i].args.instanceCount = 1
                /\ (k # <<>> /\ k # <<0>>) => calls[i].args.instanceCount = k[1]
                /\ calls[i].args.instanceCount >= 1

\* a render drew a mesh whose Geometry has maxInstancedCount zero
C7_Witness ==
    \E i \in 1..Len(calls) :
        /\ IsDraw(calls[i])
        /\ GeometryOf(calls[i].entity).maxInstancedCount = <<0>>

\* C8: when a Scene's camera ref resolves to no Camera component, render
\* fails with an error that propagates out of it, and no setUniform, bind or
\* draw call is made for a mesh of that scene or of a later scene.
C8_MissingCameraFails ==
    Rendered =>
        \A si \in 1..Len(scene) :
            scene[si].camera \notin DOMAIN camera
                => /\ outcome = "threw"
                   /\ \A i \in 1..Len(calls) : calls[i].scene < si
                   /\ \A i \in 1..Len(visited) : visited[i][1] < si

StaticallyDrawable(entity) ==
    CullableVisible(entity) /\ Resolves(entity) /\ NotDirty(entity)

\* a render threw on a first scene without camera that lists a visible, ready
\* mesh, and a second scene with a camera lists one too
C8_Witness ==
    /\ outcome = "threw"
    /\ Len(scene) = 2
    /\ scene[1].camera \notin DOMAIN camera /\ scene[2].camera \in DOMAIN camera
    /\ \A si \in {1, 2} :
          /\ Len(scene[si].meshes) = 1
          /\ StaticallyDrawable(scene[si].meshes[1])

DrawCalls(cs) == SelectSeq(cs, IsDraw)

IsCustomPush(call) == call.op = "setUniform" /\ call.args.isCustomValue

\* C9: a render that follows another render with no change to the components
\* in between makes the same draw calls in the same order (labels, counts and
\* instance counts included) and, the flags having been cleared by the first,
\* no setUniform call with isCustomValue = true.
C9_SecondRenderSameDraws ==
    prev.outcome # "idle" =>
        /\ DrawCalls(calls) = DrawCalls(prev.calls)
        /\ outcome = prev.outcome
        /\ \A i \in 1..Len(calls) : ~IsCustomPush(calls[i])

\* two renders in a row returned; the first pushed a dirty uniform and both drew
C9_Witness ==
    /\ prev.outcome = "returned" /\ outcome = "returned"
    /\ \E i \in 1..Len(prev.calls) : IsCustomPush(prev.calls[i])
    /\ \E i \in 1..Len(calls) : IsDraw(calls[i])

\* C10: every render makes exactly one engine.clear, with color, depth and
\* stencil enabled, and it comes before every other call of the render, also
\* when there is no scene or nothing to draw.
C10_ClearOnceAndFirst ==
    Rendered =>
        /\ Len(calls) >= 1
        /\ calls[1].op = "clear"
        /\ calls[1].args.clearColor /\ calls[1].args.clearDepth
        /\ calls[1].args.clearStencil
        /\ \A i \in 2..Len(calls) : calls[i].op # "clear"

\* a render returned that drew meshes of two scenes
C10_Witness ==
    /\ outcome = "returned"
    /\ \E i, j \in 1..Len(calls) :
          IsDraw(calls[i]) /\ IsDraw(calls[j]) /\ calls[i].scene # calls[j].scene

\* the positions of the calls of an operation made for an entry
OpsAt(entry, op) == {i \in CallsAt(calls, entry) : calls[i].op = op}

C12_CleanUniformsNotPushed ==
    \A m \in DOMAIN material : \A bu \in UniformsOf(m) :
        LET name == UniformAt(material, m, bu).name
        IN  name \notin CameraUniformNames =>
                /\ ~UniformAt(prev.material, m, bu).dirty => PushesOf(m, name) = {}
                /\ Cardinality(PushesOf(m, name)) <= 1

\* a render returned that drew two entries sharing a Material that has a
\* uniform dirty at the start, pushed once, and a uniform clean at the start
C12_Witness ==
    /\ outcome = "returned"
    /\ \E e1, e2 \in Entries :
          /\ e1 # e2 /\ Passed(e1) /\ Passed(e2)
          /\ mesh[EntityAt(e1)].material = mesh[EntityAt(e2)].material
          /\ \E b1, b2 \in UniformsOf(mesh[EntityAt(e1)].material) :
                LET m == mesh[EntityAt(e1)].material
                IN  /\ UniformAt(prev.material, m, b1).dirty
                    /\ PushesOf(m, UniformAt(material, m, b1).name) # {}
                    /\ ~UniformAt(prev.material, m, b2).dirty

\* the positions of the draw calls in the calls of the last render
DrawPositions == {i \in 1..Len(calls) : IsDraw(calls[i])}

\* C13: within one render the draw calls come in scene-store order and, within
\* a scene, in mesh-list order: of two draw calls the earlier one is for an
\* earlier scene, or for the same scene and an earlier position of its mesh
\* list; each draw call is labelled with the entity at its position.
C13_DrawsInStoreAndListOrder ==
    /\ \A i, j \in DrawPositions :
          i < j => \/ calls[i].scene < calls[j].scene
                   \/ /\ calls[i].scene = calls[j].scene
                      /\ calls[i].pos < calls[j].pos
    /\ \A i \in DrawPositions :
          /\ <<calls[i].scene, calls[i].pos>> \in Entries
          /\ calls[i].entity = EntityAt(<<calls[i].scene, calls[i].pos>>)
          /\ calls[i].args.label[2] = calls[i].entity

\* a render returned that drew two different meshes of one scene
C13_Witness ==
    /\ outcome = "returned"
    /\ \E i, j \in DrawPositions :
          /\ i < j /\ calls[i].scene = calls[j].scene
          /\ calls[i].entity # calls[j].entity

\* a Material component with the dirty flag of every uniform lowered
WithoutUniformDirty(mat) ==
    [mat EXCEPT !.uniforms =
        [b \in DOMAIN mat.uniforms |->
            [uniforms |->
                [u \in DOMAIN mat.uniforms[b].uniforms |->
                    [mat.uniforms[b].uniforms[u] EXCEPT !.dirty = FALSE]]]]]

\* C14: a render leaves unchanged the set of components of every store, the
\* camera reference and mesh list of every scene, the material and geometry
\* references of every Mesh, the visible flag of every Cullable and the dirty
\* flag of every Material and Geometry; in the Material store only dirty flags
\* of uniforms change and in the Camera store only the frustum planes.
C14_FrameEffect ==
    [][ /\ scene' = scene
        /\ mesh' = mesh
        /\ cullable' = cullable
        /\ geometry' = geometry
        /\ transform' = transform
        /\ DOMAIN material' = DOMAIN material
        /\ \A m \in DOMAIN material :
              WithoutUniformDirty(material'[m]) = WithoutUniformDirty(material[m])
        /\ DOMAIN camera' = DOMAIN camera
        /\ \A c \in DOMAIN camera :
              [camera'[c] EXCEPT !.frustum = camera[c].frustum] = camera[c] ]_vars

\* a render returned that lowered a uniform's dirty flag and wrote the frustum
\* planes of a camera
C14_Witness ==
    /\ outcome = "returned"
    /\ \E m \in DOMAIN material : material[m] # prev.material[m]
    /\ \E c \in DOMAIN camera : camera[c].frustum # CameraComponent(0, 0).frustum

\* the buffer handles that are set among the attributes of a Geometry, in
\* attribute order
RECURSIVE PopulatedBuffers(_, _)
PopulatedBuffers(geo, i) ==
    IF i > Len(geo.attributes) THEN <<>>
    ELSE (IF geo.attributes[i].buffer = None THEN <<>>
          ELSE <<geo.attributes[i].buffer[1]>>) \o PopulatedBuffers(geo, i + 1)

\* C15: for a drawn mesh bindVertexInputs is issued if and only if its
\* Geometry has at least one attribute whose buffer handle is set; when issued
\* it is issued once, vertexBuffers is the set buffer handles in attribute
\* order, vertexOffsets has the same length and is all zeros, vertexStartSlot
\* and indexOffset are 0 and indexBuffer is the Geometry's index buffer.
C15_BindIffSomeBufferSet ==
    \A entry \in Entries :
        Passed(entry) =>
            LET geo == GeometryOf(EntityAt(entry))
                binds == OpsAt(entry, "bindVertexInputs")
            IN  /\ (binds # {}) <=> (PopulatedBuffers(geo, 1) # <<>>)
                /\ Cardinality(binds) <= 1
                /\ \A i \in binds :
                      /\ calls[i].args.vertexBuffers = PopulatedBuffers(geo, 1)
                      /\ calls[i].args.vertexOffsets =
                             [k \in 1..Len(PopulatedBuffers(geo, 1)) |-> 0]
                      /\ calls[i].args.vertexStartSlot = 0
                      /\ calls[i].args.indexOffset = 0
                      /\ calls[i].args.indexBuffer = geo.indicesBuffer

\* C16: the calls made for a drawn mesh are consecutive in the call sequence
\* (no call of another mesh in between) and come in this order: the setUniform
\* calls, all for the mesh's material, then exactly one setRenderBindGroups
\* with that material's bind group, then at most one bindVertexInputs, then
\* the single draw call.
C16_CommandOrderPerMesh ==
    \A entry \in Entries :
        Passed(entry) =>
            LET cs == CallsAt(calls, entry)
                groups == OpsAt(entry, "setRenderBindGroups")
                draws == DrawsAt(calls, entry)
            IN  /\ Cardinality(groups) = 1
                /\ Cardinality(draws) = 1
                /\ Cardinality(OpsAt(entry, "bindVertexInputs")) <= 1
                /\ \A g \in groups : \A d \in draws :
                      /\ g < d
                      /\ calls[g].args.groups =
                             <<MaterialOf(EntityAt(entry)).uniformBindGroup>>
                      /\ \A i \in cs : i <= d
                      /\ \A i \in 1..d :
                            /\ (\E k \in cs : k <= i) => i \in cs
                            /\ (i \in cs /\ i < g) <=>
                                   (i \in OpsAt(entry, "setUniform"))
                            /\ (i > g /\ i < d) =>
                                   i \in OpsAt(entry, "bindVertexInputs")
                /\ \A i \in OpsAt(entry, "setUniform") :
                      calls[i].args.material = mesh[EntityAt(entry)].material

\* a render returned that drew two meshes, one with setUniform calls and a
\* bindVertexInputs and one with neither a Transform nor attributes
C16_Witness ==
    /\ outcome = "returned"
    /\ \E e1, e2 \in Entries :
          /\ e1 # e2 /\ Passed(e1) /\ Passed(e2)
          /\ OpsAt(e1, "setUniform") # {}
          /\ OpsAt(e1, "bindVertexInputs") # {}
          /\ OpsAt(e2, "bindVertexInputs") = {}

\* C17: for every draw call that follows a bindVertexInputs of the same mesh,
\* the number of vertex buffers bound equals the number of vertex-buffer
\* layouts in the pipeline descriptor of the draw call.
C17_BoundBuffersMatchLayouts ==
    \A entry \in Entries :
        \A b \in OpsAt(entry, "bindVertexInputs") : \A d \in DrawsAt(calls, entry) :
            b < d => Len(calls[b].args.vertexBuffers) =
                         Len(calls[d].args.pipeline.vertexBuffers)

\* the position of the latest setUniform call before position d that pushes
\* the uniform name to material m, as a set: empty when there is none
LatestPushBefore(d, m, name) ==
    {i \in PushesOf(m, name) :
        i < d /\ \A k \in PushesOf(m, name) : k < d => k <= i}

\* C18: when a draw call is issued for a mesh that has a Transform component,
\* the latest value pushed as projectionMatrix to the mesh's material is the
\* perspective matrix of the camera of the scene being rendered, and the
\* latest value pushed as modelViewMatrix is that camera's view matrix
\* multiplied by the mesh's own world transform.
C18_LatestCameraUniformsAtDraw ==
    \A d \in DrawPositions :
        LET entity == calls[d].entity
            m == mesh[entity].material
            cam == camera[scene[calls[d].scene].camera]
        IN  entity \in DOMAIN transform =>
                /\ LatestPushBefore(d, m, "projectionMatrix") # {}
                /\ \A i \in LatestPushBefore(d, m, "projectionMatrix") :
                      calls[i].args.data = cam.perspective
                /\ LatestPushBefore(d, m, "modelViewMatrix") # {}
                /\ \A i \in LatestPushBefore(d, m, "modelViewMatrix") :
                      calls[i].args.data =
                          Multiply(cam.view, transform[entity].worldTransform)

====
